---- MODULE Spec2Model ----
(***************************************************************************)
(* Model of the JNI bridge in app/src/main/cpp/whisper_jni.cpp:            *)
(*   initWhisper      (initialize)  lines 13-38                            *)
(*   transcribeAudio  (transcribe)  lines 40-109                           *)
(*   freeWhisper      (release)     lines 111-118                          *)
(* The managed caller invokes the three entry points in any order, passing *)
(* the sentinel 0 or any handle value it ever received from initWhisper.   *)
(* The inference engine and the JNI environment are the code's             *)
(* collaborators: their return values are inputs drawn from small sets.    *)
(***************************************************************************)
EXTENDS Integers, Sequences, FiniteSets

\* ------------------------------------------------------------------ bounds
MaxAddr == 2        \* distinct addresses the engine can hand out
MaxSegs == 2        \* segments produced by one inference call

Addrs == 1..MaxAddr
Statuses == {-1, 0, 1}

\* ---------------------------------------------------------------- pointers
\* A C pointer to a string (const char *, jstring): null, or a string value.
NullPtr == [null |-> TRUE, str |-> <<>>]
Ptr(s) == [null |-> FALSE, str |-> s]

RECURSIVE SeqsUpTo(_, _)
SeqsUpTo(S, n) ==
    IF n = 0 THEN {<<>>}
    ELSE LET shorter == SeqsUpTo(S, n - 1)
         IN shorter \cup {Append(s, x) : s \in {t \in shorter : Len(t) = n - 1}, x \in S}

\* segment texts: empty, plain, and with the leading space the engine's
\* tokens usually carry
Texts == {<<>>, <<"a">>, <<" ", "b">>}
\* what whisper_full_get_segment_text can return for one segment
SegmentTexts == {NullPtr} \cup {Ptr(t) : t \in Texts}
\* what the engine holds after one whisper_full: n_segments and their texts
SegmentLists == SeqsUpTo(SegmentTexts, MaxSegs)

\* ------------------------------------------------------------------- state
VARIABLES
    live,          \* addresses of the whisper_context objects now allocated
    issued,        \* handle values initWhisper has returned to the caller
    liveBefore,    \* live as it was when the last call was entered
    call,          \* the last call: entry point, arguments, collaborator results
    trace,         \* JNI / engine functions the last call invoked, in order
    retHandle,     \* jlong the last call returned, if it was initWhisper (else 0)
    retText,       \* jstring the last call returned, if it was transcribeAudio
    strBorrows,    \* GetStringUTFChars buffers not yet released
    audioBorrows,  \* GetFloatArrayElements buffers not yet released
    crashed        \* the process died inside the last call

vars == <<live, issued, liveBefore, call, trace, retHandle, retText,
          strBorrows, audioBorrows, crashed>>

NoCall == [op |-> "none", handle |-> 0, pathOk |-> FALSE, loadOk |-> FALSE,
           audioOk |-> FALSE, dies |-> FALSE, status |-> 0, segs |-> <<>>]

\* What the JNI environment and the engine do during one transcribeAudio on
\* handle h, each result drawn only if the one before it lets the call go on:
\* no buffer; a buffer and a non-zero status; a buffer, status 0 and some
\* segments. whisper_full on a context that is no longer allocated is
\* undefined behaviour: it may also kill the process.
Engine(audioOk, dies, status, segs) ==
    [audioOk |-> audioOk, dies |-> dies, status |-> status, segs |-> segs]

EngineRuns(h) ==
    {Engine(FALSE, FALSE, 0, <<>>)}
        \cup {Engine(TRUE, FALSE, s, <<>>) : s \in Statuses \ {0}}
        \cup {Engine(TRUE, FALSE, 0, segs) : segs \in SegmentLists}
        \cup (IF h \in live \/ h = 0 THEN {} ELSE {Engine(TRUE, TRUE, 0, <<>>)})

Count(t, f) == Cardinality({i \in 1..Len(t) : t[i] = f})
Calls(t, f) == Count(t, f) > 0
Index(t, f) == CHOOSE i \in 1..Len(t) : t[i] = f

RepeatCall(f, n) == [i \in 1..n |-> f]

\* ------------------------------------------------------------- initWhisper
\* pathOk: GetStringUTFChars returned a buffer; ctx: the pointer
\* whisper_init_from_file_with_params returns (0 = null) if it is called.
\* slip: a failed path lookup reported with -1 instead of the sentinel
initWhisperBadSentinel(pathOk, ctx) ==
    IF ~pathOk
    THEN [ret |-> -1, trace |-> <<"GetStringUTFChars">>]
    ELSE LET t == <<"GetStringUTFChars", "whisper_init_from_file_with_params",
                    "ReleaseStringUTFChars">>
         IN IF ctx = 0
            THEN [ret |-> 0, trace |-> t]
            ELSE [ret |-> ctx, trace |-> t]

\* slip: the path buffer released only after the null check on the context
initWhisperLateRelease(pathOk, ctx) ==
    IF ~pathOk
    THEN [ret |-> 0, trace |-> <<"GetStringUTFChars">>]
    ELSE LET t == <<"GetStringUTFChars", "whisper_init_from_file_with_params">>
         IN IF ctx = 0
            THEN [ret |-> 0, trace |-> t]
            ELSE [ret |-> ctx, trace |-> t \o <<"ReleaseStringUTFChars">>]

initWhisper(pathOk, ctx) ==
    IF ~pathOk
    THEN [ret |-> 0, trace |-> <<"GetStringUTFChars">>]
    ELSE LET t == <<"GetStringUTFChars", "whisper_init_from_file_with_params",
                    "ReleaseStringUTFChars">>
         IN IF ctx = 0
            THEN [ret |-> 0, trace |-> t]
            ELSE [ret |-> ctx, trace |-> t]

\* --------------------------------------------------------- transcribeAudio
\* The segment loop of lines 96-105, i being the zero-based loop index.
\* slip: the separator decided by "fullText is not empty" instead of i > 0
RECURSIVE ConcatLoopNonEmpty(_, _, _)
ConcatLoopNonEmpty(segs, i, fullText) ==
    IF i >= Len(segs) THEN fullText
    ELSE LET text == segs[i + 1]
         IN IF ~text.null
            THEN ConcatLoopNonEmpty(segs, i + 1,
                     (IF fullText # <<>> THEN fullText \o <<" ">> ELSE fullText)
                         \o text.str)
            ELSE ConcatLoopNonEmpty(segs, i + 1, fullText)

\* slip: the separator appended outside the null check
RECURSIVE ConcatLoopSepOutside(_, _, _)
ConcatLoopSepOutside(segs, i, fullText) ==
    IF i >= Len(segs) THEN fullText
    ELSE LET text == segs[i + 1]
             sep == IF i > 0 THEN fullText \o <<" ">> ELSE fullText
         IN IF ~text.null
            THEN ConcatLoopSepOutside(segs, i + 1, sep \o text.str)
            ELSE ConcatLoopSepOutside(segs, i + 1, sep)

RECURSIVE ConcatLoop(_, _, _)
ConcatLoop(segs, i, fullText) ==
    IF i >= Len(segs) THEN fullText
    ELSE LET text == segs[i + 1]
         IN IF ~text.null
            THEN ConcatLoop(segs, i + 1,
                     (IF i > 0 THEN fullText \o <<" ">> ELSE fullText) \o text.str)
            ELSE ConcatLoop(segs, i + 1, fullText)

Concatenate(segs) == ConcatLoop(segs, 0, <<>>)

\* slip: the null check on the context left out
transcribeAudioNoGuard(ctx, audioOk, dies, status, segs) ==
    LET t1 == <<"GetFloatArrayElements", "GetArrayLength">>
             t2 == t1 \o <<"whisper_full">>
             t3 == t2 \o <<"ReleaseFloatArrayElements(JNI_ABORT)">>
             t4 == t3 \o <<"whisper_full_n_segments">>
    IN  IF ~audioOk
            THEN [ret |-> NullPtr, trace |-> t1, crash |-> FALSE]
            ELSE IF dies
            THEN [ret |-> NullPtr, trace |-> t2, crash |-> TRUE]
            ELSE IF status # 0
            THEN [ret |-> NullPtr, trace |-> t3, crash |-> FALSE]
            ELSE IF Len(segs) = 0
            THEN [ret |-> Ptr(<<>>), trace |-> t4 \o <<"NewStringUTF">>,
                  crash |-> FALSE]
            ELSE [ret |-> Ptr(Concatenate(segs)),
                  trace |-> t4 \o RepeatCall("whisper_full_get_segment_text", Len(segs))
                               \o <<"NewStringUTF">>,
                  crash |-> FALSE]

\* slip: the context freed when inference fails
transcribeAudioFreeOnFail(ctx, audioOk, dies, status, segs) ==
    IF ctx = 0
    THEN [ret |-> NullPtr, trace |-> <<>>, crash |-> FALSE]
    ELSE LET t1 == <<"GetFloatArrayElements", "GetArrayLength">>
             t2 == t1 \o <<"whisper_full">>
             t3 == t2 \o <<"ReleaseFloatArrayElements(JNI_ABORT)">>
             t4 == t3 \o <<"whisper_full_n_segments">>
         IN IF ~audioOk
            THEN [ret |-> NullPtr, trace |-> t1, crash |-> FALSE]
            ELSE IF dies
            THEN [ret |-> NullPtr, trace |-> t2, crash |-> TRUE]
            ELSE IF status # 0
            THEN [ret |-> NullPtr, trace |-> t3 \o <<"whisper_free">>, crash |-> FALSE]
            ELSE IF Len(segs) = 0
            THEN [ret |-> Ptr(<<>>), trace |-> t4 \o <<"NewStringUTF">>,
                  crash |-> FALSE]
            ELSE [ret |-> Ptr(Concatenate(segs)),
                  trace |-> t4 \o RepeatCall("whisper_full_get_segment_text", Len(segs))
                               \o <<"NewStringUTF">>,
                  crash |-> FALSE]

\* slip: zero segments reported as null
transcribeAudioEmptyAbsent(ctx, audioOk, dies, status, segs) ==
    IF ctx = 0
    THEN [ret |-> NullPtr, trace |-> <<>>, crash |-> FALSE]
    ELSE LET t1 == <<"GetFloatArrayElements", "GetArrayLength">>
             t2 == t1 \o <<"whisper_full">>
             t3 == t2 \o <<"ReleaseFloatArrayElements(JNI_ABORT)">>
             t4 == t3 \o <<"whisper_full_n_segments">>
         IN IF ~audioOk
            THEN [ret |-> NullPtr, trace |-> t1, crash |-> FALSE]
            ELSE IF dies
            THEN [ret |-> NullPtr, trace |-> t2, crash |-> TRUE]
            ELSE IF status # 0
            THEN [ret |-> NullPtr, trace |-> t3, crash |-> FALSE]
            ELSE IF Len(segs) = 0
            THEN [ret |-> NullPtr, trace |-> t4, crash |-> FALSE]
            ELSE [ret |-> Ptr(Concatenate(segs)),
                  trace |-> t4 \o RepeatCall("whisper_full_get_segment_text", Len(segs))
                               \o <<"NewStringUTF">>,
                  crash |-> FALSE]

\* slip: the audio buffer not released when inference fails
transcribeAudioLeak(ctx, audioOk, dies, status, segs) ==
    IF ctx = 0
    THEN [ret |-> NullPtr, trace |-> <<>>, crash |-> FALSE]
    ELSE LET t1 == <<"GetFloatArrayElements", "GetArrayLength">>
             t2 == t1 \o <<"whisper_full">>
             t3 == t2 \o <<"ReleaseFloatArrayElements(JNI_ABORT)">>
             t4 == t3 \o <<"whisper_full_n_segments">>
         IN IF ~audioOk
            THEN [ret |-> NullPtr, trace |-> t1, crash |-> FALSE]
            ELSE IF dies
            THEN [ret |-> NullPtr, trace |-> t2, crash |-> TRUE]
            ELSE IF status # 0
            THEN [ret |-> NullPtr, trace |-> t2, crash |-> FALSE]
            ELSE IF Len(segs) = 0
            THEN [ret |-> Ptr(<<>>), trace |-> t4 \o <<"NewStringUTF">>,
                  crash |-> FALSE]
            ELSE [ret |-> Ptr(Concatenate(segs)),
                  trace |-> t4 \o RepeatCall("whisper_full_get_segment_text", Len(segs))
                               \o <<"NewStringUTF">>,
                  crash |-> FALSE]

\* ctx: the handle cast to a pointer; audioOk: GetFloatArrayElements returned
\* a buffer; dies: the process dies inside whisper_full; status, segs: what
\* whisper_full returns and what the engine then reports.
transcribeAudio(ctx, audioOk, dies, status, segs) ==
    IF ctx = 0
    THEN [ret |-> NullPtr, trace |-> <<>>, crash |-> FALSE]
    ELSE LET t1 == <<"GetFloatArrayElements", "GetArrayLength">>
             t2 == t1 \o <<"whisper_full">>
             t3 == t2 \o <<"ReleaseFloatArrayElements(JNI_ABORT)">>
             t4 == t3 \o <<"whisper_full_n_segments">>
         IN IF ~audioOk
            THEN [ret |-> NullPtr, trace |-> t1, crash |-> FALSE]
            ELSE IF dies
            THEN [ret |-> NullPtr, trace |-> t2, crash |-> TRUE]
            ELSE IF status # 0
            THEN [ret |-> NullPtr, trace |-> t3, crash |-> FALSE]
            ELSE IF Len(segs) = 0
            THEN [ret |-> Ptr(<<>>), trace |-> t4 \o <<"NewStringUTF">>,
                  crash |-> FALSE]
            ELSE [ret |-> Ptr(Concatenate(segs)),
                  trace |-> t4 \o RepeatCall("whisper_full_get_segment_text", Len(segs))
                               \o <<"NewStringUTF">>,
                  crash |-> FALSE]

\* ------------------------------------------------------------- freeWhisper
\* slip: whisper_free called without the null check
freeWhisperNoGuard(ctx) == <<"whisper_free">>

freeWhisper(ctx) ==
    IF ctx # 0 THEN <<"whisper_free">> ELSE <<>>

\* ------------------------------------------------- effects of the calls made
\* Contexts allocated after a call that made the calls in t: the engine
\* allocates ctx when the load succeeds and frees h in whisper_free.
LiveAfter(t, h, ctx) ==
    (live \cup (IF Calls(t, "whisper_init_from_file_with_params") /\ ctx # 0
                THEN {ctx} ELSE {}))
        \ (IF Calls(t, "whisper_free") THEN {h} ELSE {})

StrBorrowsAfter(t, pathOk) ==
    strBorrows + (IF Calls(t, "GetStringUTFChars") /\ pathOk THEN 1 ELSE 0)
               - Count(t, "ReleaseStringUTFChars")

AudioReleases(t) ==
    Count(t, "ReleaseFloatArrayElements(JNI_ABORT)")
        + Count(t, "ReleaseFloatArrayElements(0)")

AudioBorrowsAfter(t, audioOk) ==
    audioBorrows + (IF Calls(t, "GetFloatArrayElements") /\ audioOk THEN 1 ELSE 0)
                 - AudioReleases(t)

\* Handles the caller can pass: the sentinel, or a value it was given.
CallerHandles == {0} \cup issued

\* ----------------------------------------------------------------- actions
Init ==
    /\ live = {}
    /\ issued = {}
    /\ liveBefore = {}
    /\ call = NoCall
    /\ trace = <<>>
    /\ retHandle = 0
    /\ retText = NullPtr
    /\ strBorrows = 0
    /\ audioBorrows = 0
    /\ crashed = FALSE

\* The engine returns a fresh context (at any address not now allocated, a
\* previously freed one included) or null.
Initialize ==
    /\ ~crashed
    /\ \E pathOk \in BOOLEAN :
       \E ctx \in IF pathOk THEN {0} \cup (Addrs \ live) ELSE {0} :
         LET out == initWhisper(pathOk, ctx)
         IN /\ call' = [NoCall EXCEPT !.op = "initialize", !.pathOk = pathOk,
                                      !.loadOk = (ctx # 0)]
            /\ trace' = out.trace
            /\ retHandle' = out.ret
            /\ live' = LiveAfter(out.trace, 0, ctx)
            /\ issued' = issued \cup ({out.ret} \ {0})
            /\ strBorrows' = StrBorrowsAfter(out.trace, pathOk)
    /\ liveBefore' = live
    /\ retText' = NullPtr
    /\ UNCHANGED <<audioBorrows, crashed>>

Transcribe ==
    /\ ~crashed
    /\ \E h \in CallerHandles :
       \E e \in EngineRuns(h) :
         LET out == transcribeAudio(h, e.audioOk, e.dies, e.status, e.segs)
         IN /\ call' = [NoCall EXCEPT !.op = "transcribe", !.handle = h,
                                      !.audioOk = e.audioOk, !.dies = e.dies,
                                      !.status = e.status, !.segs = e.segs]
            /\ trace' = out.trace
            /\ retText' = out.ret
            /\ crashed' = out.crash
            /\ live' = LiveAfter(out.trace, h, 0)
            /\ audioBorrows' = AudioBorrowsAfter(out.trace, e.audioOk)
    /\ liveBefore' = live
    /\ retHandle' = 0
    /\ UNCHANGED <<issued, strBorrows>>

\* whisper_free on a context that is no longer allocated is a double free:
\* the process may die or carry on.
Release ==
    /\ ~crashed
    /\ \E h \in CallerHandles :
       \E dies \in IF h \in live \/ h = 0 THEN {FALSE} ELSE BOOLEAN :
         LET t == freeWhisper(h)
         IN /\ call' = [NoCall EXCEPT !.op = "release", !.handle = h, !.dies = dies]
            /\ trace' = t
            /\ crashed' = (dies /\ Calls(t, "whisper_free"))
            /\ live' = LiveAfter(t, h, 0)
    /\ liveBefore' = live
    /\ retHandle' = 0
    /\ retText' = NullPtr
    /\ UNCHANGED <<issued, strBorrows, audioBorrows>>

Next == Initialize \/ Transcribe \/ Release

Spec == Init /\ [][Next]_vars

\* ------------------------------------------------------------ properties
Returned == call.op = "transcribe" /\ ~crashed
\* whisper_full ran and reported success
Succeeded ==
    Returned /\ call.handle # 0 /\ call.audioOk /\ call.status = 0

\* C1: initialize returns a non-zero handle exactly when the path string was
\* obtained and the engine returned a context; in every other case it returns
\* the sentinel 0, and it never fails in another way. The handle it returns
\* names the context just allocated.
C1_InitHandle ==
    call.op = "initialize" =>
        /\ (retHandle # 0) <=> (call.pathOk /\ call.loadOk)
        /\ (~call.pathOk \/ ~call.loadOk) => retHandle = 0
        /\ retHandle # 0 => (retHandle \in live /\ retHandle \notin liveBefore)
        /\ ~crashed

C1_Witness ==
    call.op = "initialize" /\ call.pathOk /\ call.loadOk /\ retHandle # 0

\* C2: transcribe with the zero handle returns the absent result, in any
\* state and whatever the audio argument: it does not borrow the audio
\* buffer, calls nothing of the engine and does not crash.
C2_ZeroHandleAbsent ==
    (call.op = "transcribe" /\ call.handle = 0) =>
        /\ retText = NullPtr
        /\ trace = <<>>
        /\ audioBorrows = 0
        /\ live = liveBefore
        /\ ~crashed

C2_Witness ==
    /\ call.op = "transcribe" /\ call.handle = 0 /\ call.audioOk
    /\ live # {} /\ retText = NullPtr

\* C3: transcribe with a handle that has been released returns the absent
\* result and the freed context is never handed to whisper_full.
C3_ReleasedHandleAbsent ==
    (call.op = "transcribe" /\ call.handle # 0 /\ call.handle \notin liveBefore) =>
        /\ retText = NullPtr
        /\ ~Calls(trace, "whisper_full")
        /\ ~crashed

\* C4: when whisper_full returns a non-zero status, transcribe returns the
\* absent result and frees nothing: the contexts allocated are the same as
\* before, and a handle that was live is still live for a retry or a release.
C4_FailureKeepsContext ==
    (Returned /\ call.handle # 0 /\ call.audioOk /\ call.status # 0) =>
        /\ retText = NullPtr
        /\ live = liveBefore
        /\ ~Calls(trace, "whisper_free")
        /\ call.handle \in liveBefore => call.handle \in live

C4_Witness ==
    /\ Returned /\ call.audioOk /\ call.status # 0
    /\ call.handle \in liveBefore /\ call.handle \in live /\ retText = NullPtr

\* C5: with a valid handle, a successful inference that produced no segment
\* returns the empty string, which is not the absent result; the absent
\* result is returned only for the zero handle, an audio buffer that could
\* not be obtained, or a non-zero status.
C5_EmptyIsNotAbsent ==
    /\ (Succeeded /\ call.handle \in liveBefore /\ call.segs = <<>>) =>
           (retText = Ptr(<<>>) /\ retText # NullPtr)
    /\ (Returned /\ retText.null) =>
           (call.handle = 0 \/ ~call.audioOk \/ call.status # 0)

C5_Witness ==
    /\ Succeeded /\ call.handle \in liveBefore /\ call.segs = <<>>
    /\ ~retText.null /\ retText.str = <<>>

\* The texts joined with one space between neighbours.
RECURSIVE SpaceJoin(_)
SpaceJoin(texts) ==
    IF Len(texts) = 0 THEN <<>>
    ELSE IF Len(texts) = 1 THEN texts[1]
    ELSE texts[1] \o <<" ">> \o SpaceJoin(Tail(texts))

AllRetrievable(segs) == \A i \in 1..Len(segs) : ~segs[i].null

\* C6: when every segment's text is retrievable, the text transcribe returns
\* is the segment texts in index order with exactly one space between
\* neighbours and none before the first or after the last.
C6_SpaceJoined ==
    (Succeeded /\ AllRetrievable(call.segs)) =>
        /\ ~retText.null
        /\ retText.str = SpaceJoin([i \in 1..Len(call.segs) |-> call.segs[i].str])

C6_Witness ==
    /\ Succeeded /\ AllRetrievable(call.segs) /\ Len(call.segs) = 2
    /\ call.segs[1].str = <<>>
    /\ retText.str = <<" ">> \o call.segs[2].str

\* C7: release(0) is a no-op in every state: it does not crash, does not call
\* whisper_free or anything else, and leaves the allocated contexts alone.
C7_ReleaseZeroNoOp ==
    (call.op = "release" /\ call.handle = 0) =>
        /\ trace = <<>>
        /\ live = liveBefore
        /\ strBorrows = 0 /\ audioBorrows = 0
        /\ ~crashed

C7_Witness ==
    call.op = "release" /\ call.handle = 0 /\ live # {} /\ live = liveBefore

\* C8: an initialize that returns the sentinel leaves the allocated contexts
\* as they were, and the path string is released on the path on which it was
\* obtained (and not released where it was not).
C8_FailedInitLeavesNothing ==
    (call.op = "initialize" /\ retHandle = 0) =>
        /\ live = liveBefore
        /\ strBorrows = 0
        /\ Count(trace, "ReleaseStringUTFChars") = (IF call.pathOk THEN 1 ELSE 0)

C8_Witness ==
    /\ call.op = "initialize" /\ call.pathOk /\ ~call.loadOk /\ retHandle = 0
    /\ liveBefore # {} /\ live = liveBefore /\ strBorrows = 0

\* One space before every segment but the first, whether or not its text is
\* retrievable; a segment without text adds no text.
RECURSIVE IndexJoin(_)
IndexJoin(segs) ==
    IF Len(segs) = 0 THEN <<>>
    ELSE LET n == Len(segs)
             txt == IF segs[n].null THEN <<>> ELSE segs[n].str
         IN IndexJoin(SubSeq(segs, 1, n - 1))
                \o (IF n > 1 THEN <<" ">> ELSE <<>>) \o txt

\* One space before every retrievable segment but the first; a segment
\* without text adds neither text nor separator.
RECURSIVE RetrievableJoin(_)
RetrievableJoin(segs) ==
    IF Len(segs) = 0 THEN <<>>
    ELSE LET n == Len(segs)
             front == RetrievableJoin(SubSeq(segs, 1, n - 1))
         IN IF segs[n].null THEN front
            ELSE front \o (IF n > 1 THEN <<" ">> ELSE <<>>) \o segs[n].str

RECURSIVE TextLen(_)
TextLen(segs) ==
    IF Len(segs) = 0 THEN 0
    ELSE (IF Head(segs).null THEN 0 ELSE Len(Head(segs).str)) + TextLen(Tail(segs))

\* C9 as stated: one space before every segment except the first whether or
\* not the segment's text is retrievable, so n segments give n-1 separators.
C9_SeparatorPerIndex ==
    (Succeeded /\ Len(call.segs) >= 1) =>
        /\ retText.str = IndexJoin(call.segs)
        /\ Len(retText.str) = TextLen(call.segs) + Len(call.segs) - 1

\* C9 amended: one space before every segment whose text is retrievable and
\* whose index is not 0; a segment whose text is not retrievable adds neither
\* text nor separator, so the separators number the retrievable segments of
\* index 1..n-1.
C9_SeparatorPerRetrievable ==
    (Succeeded /\ Len(call.segs) >= 1) =>
        /\ retText.str = RetrievableJoin(call.segs)
        /\ Len(retText.str) = TextLen(call.segs)
               + Cardinality({i \in 2..Len(call.segs) : ~call.segs[i].null})

C9_Witness ==
    /\ Succeeded /\ Len(call.segs) = 2
    /\ ~call.segs[1].null /\ call.segs[1].str # <<>> /\ call.segs[2].null
    /\ retText.str = call.segs[1].str

\* C10: the audio buffer is borrowed for one call only. On every path on
\* which it was obtained it is released exactly once, after whisper_full and
\* in JNI_ABORT mode (nothing is copied back); where it was not obtained it
\* is not released; no borrow is outstanding when transcribe has returned.
C10_AudioBorrowScoped ==
    Returned =>
        LET obtained == call.handle # 0 /\ call.audioOk
        IN /\ audioBorrows = 0
           /\ obtained =>
                 /\ Count(trace, "GetFloatArrayElements") = 1
                 /\ AudioReleases(trace) = 1
                 /\ Count(trace, "ReleaseFloatArrayElements(JNI_ABORT)") = 1
                 /\ Calls(trace, "whisper_full")
                 /\ Index(trace, "whisper_full")
                       < Index(trace, "ReleaseFloatArrayElements(JNI_ABORT)")
           /\ ~obtained => AudioReleases(trace) = 0

C10_Witness ==
    /\ Returned /\ call.handle \in liveBefore /\ call.audioOk /\ call.status # 0
    /\ AudioReleases(trace) = 1 /\ audioBorrows = 0


====
